---------------------------- MODULE Spec2Model ----------------------------
(***************************************************************************)
(* A model of the request-processing core of zense:                        *)
(*                                                                         *)
(*   - the stack builder (handler/stack/builder.rs): accumulation of       *)
(*     middleware factories and their fail-fast resolution into a Stack,   *)
(*     and the dispatch of a request through a resolved Stack;             *)
(*   - the request parser (http/request.rs): Request::from_bytes on top    *)
(*     of the httparse request-head parser;                                *)
(*   - the percent-encoding of URIs (http/request/uri/encoding.rs).        *)
(*                                                                         *)
(* Bytes are the integers 0..255, strings are sequences of bytes.          *)
(***************************************************************************)
EXTENDS Integers, Sequences, FiniteSets, TLC

VARIABLES
    \* ---- stack builder and stack dispatch
    builder,      \* Builder.middlewares: the factories, in the Vec's order
    registered,   \* history: the middlewares handed to `with`, in call order
    scope,        \* the Scope resolution was called with (None before)
    resolution,   \* None while accumulating, then the Result<Stack>
    converted,    \* history: indices of the factories resolution invoked
    req,          \* the request of the Stack.process call in progress
    fallback,     \* the fallback handler of that call
    frames,       \* the call stack of that call (innermost frame last)
    ret,          \* the response being returned to the innermost frame
    log,          \* history: who was invoked during that call, in order
    response,     \* the response Stack.process returned (None before)
    calls,        \* the concurrent Stack.process calls on a shared Stack
    \* ---- request parser
    wire,         \* the request as the client composed it
    buf,          \* the bytes handed to Request::from_bytes
    parsed,       \* the Result<Request> (None before)
    \* ---- percent-encoding
    value,        \* the string handed to encode
    kind,         \* the encoding Kind
    encoded,      \* encode(value, kind) (None before)
    decoded       \* decode(encoded) (None before)

stackVars  == <<builder, registered, scope, resolution, converted,
                req, fallback, frames, ret, log, response>>
parserVars == <<wire, buf, parsed>>
codecVars  == <<value, kind, encoded, decoded>>
sharedVars == <<calls>>
vars       == <<stackVars, parserVars, codecVars, sharedVars>>

---------------------------------------------------------------------------
(* Bounds of the model.                                                    *)

MaxMiddlewares == 3

\* The number of concurrent calls on a shared Stack.
MaxCalls == 2

\* The longest string handed to encode, in characters.
MaxStrLen == 3

\* The most header lines of a request composed line by line.
MaxHeaderLines == 2

\* The longest buffer of arbitrary bytes.
MaxJunkLen == 3

\* The transport delivers the first MaxTrickle bytes of a request one by
\* one at the slowest; what follows arrives in one piece.
MaxTrickle == 20

---------------------------------------------------------------------------
(* Constants of the program.                                               *)

\* The size of the header array handed to httparse.
MaxHeaders == 64

\* The longest request path accepted, 4 * 1024 bytes.
MaxPathBytes == 4096

---------------------------------------------------------------------------
(* Common values.                                                          *)

None == [tag |-> "None"]

Ok(v) == [tag |-> "Ok", val |-> v]

Err(k, reason) == [tag |-> "Err", kind |-> k, reason |-> reason]

Some(v) == [tag |-> "Some", val |-> v]

\* The concatenation of the sequences ss[lo], .., ss[hi], by halves.
RECURSIVE ConcatRange(_, _, _)
ConcatRange(ss, lo, hi) ==
    IF lo > hi THEN <<>>
    ELSE IF lo = hi THEN ss[lo]
    ELSE LET mid == (lo + hi) \div 2
         IN  ConcatRange(ss, lo, mid) \o ConcatRange(ss, mid + 1, hi)

\* The concatenation of a sequence of sequences.
Concat(ss) == ConcatRange(ss, 1, Len(ss))

---------------------------------------------------------------------------
(* Responses (http/response).                                              *)

\* Status::name: the canonical name of a status.
StatusName(status) ==
    CASE status = "Ok"                  -> "OK"
      [] status = "NotFound"            -> "Not Found"
      [] status = "ImATeapot"           -> "I'm a teapot"
      [] status = "InternalServerError" -> "Internal Server Error"

\* Response::new().status(status)
ResponseWithStatus(status) ==
    [status |-> status, headers |-> <<>>, body |-> ""]

\* A response from a status code that leaves the body empty.
from_status_NoBody(status) ==
    LET content == StatusName(status)
    IN  [status  |-> status,
         headers |-> << <<"ContentType", "text/plain; charset=utf-8">>,
                        <<"ContentLength", Len(content)>> >>,
         body    |-> ""]

\* ResponseExt::from_status
from_status(status) ==
    LET content == StatusName(status)
    IN  [status  |-> status,
         headers |-> << <<"ContentType", "text/plain; charset=utf-8">>,
                        <<"ContentLength", Len(content)>> >>,
         body    |-> content]

---------------------------------------------------------------------------
(* Handlers and middlewares (handler.rs, middleware.rs).                   *)

\* The requests a call is made with: their method, path, headers and body.
Requests ==
    { [method |-> "Get",  path |-> "/coffee", headers |-> <<>>, body |-> ""],
      [method |-> "Get",  path |-> "/tea",    headers |-> <<>>, body |-> ""],
      [method |-> "Post", path |-> "/coffee", headers |-> <<>>, body |-> ""],
      [method |-> "Post", path |-> "/tea",
       headers |-> << <<"Accept", "text/html">> >>, body |-> "milk"] }

\* The fallback handlers a call is made with: NotFound, and closures:
\*   Hello    returns a Response;
\*   HelloOk  returns Ok(response);
\*   Broken   returns Err(error).
Fallbacks == {"NotFound", "Hello", "HelloOk", "Broken"}

\* The response of the closures that say hello.
HelloResponse == [status |-> "Ok", headers |-> <<>>, body |-> "hello"]

\* What the closure returns when called: a Response, or a Result.
call(f, r) ==
    CASE f = "Hello"    -> HelloResponse
      [] f = "HelloOk"  -> Ok(HelloResponse)
      [] f = "Broken"   -> Err("Closure", "E2")
      [] f = "AnswerOk" -> Ok(ResponseWithStatus("Ok"))
      [] f = "Fails"    -> Err("Closure", "E1")

\* A conversion that takes the error for a missing resource.
into_response_NotFound(v) ==
    IF "tag" \notin DOMAIN v THEN v
    ELSE IF v.tag = "Ok" THEN v.val
    ELSE from_status("NotFound")

\* IntoResponse::into_response: a Response is itself; a Result is its
\* response, or "500 Internal Server Error" for whatever error it holds.
into_response(v) ==
    IF "tag" \notin DOMAIN v THEN v
    ELSE IF v.tag = "Ok" THEN v.val
    ELSE from_status("InternalServerError")

\* Handler::handle of a fallback handler: NotFound, or a closure, whose
\* result is converted.
handle(h, r) ==
    IF h = "NotFound"
    THEN from_status("NotFound")
    ELSE into_response(call(h, r))

\* The middlewares of the model, by what their process does:
\*   Forward  calls next.handle(req) and returns its response;
\*   Answer   returns 200 without calling next;
\*   Teapot   the documented example: 418 for GET /coffee, else forwards;
\*   Twice    calls next.handle twice and returns the second response
\*            (outside the at-most-once contract);
\*   AnswerOk a closure that returns Ok(response) without calling next;
\*   Fails    a closure that returns Err(error) without calling next.
MiddlewareKinds == {"Forward", "Answer", "Teapot", "Twice", "AnswerOk", "Fails"}

\* The branch condition of Teapot::process.
TeapotAnswers(r) == r.method = "Get" /\ r.path = "/coffee"

\* A Teapot with its branches swapped.
processSwapped(m, r) ==
    CASE m = "Forward" -> [act |-> "Next", times |-> 1]
      [] m = "Twice"   -> [act |-> "Next", times |-> 2]
      [] m = "Answer"  -> [act |-> "Answer", res |-> ResponseWithStatus("Ok")]
      [] m \in {"AnswerOk", "Fails"} ->
            [act |-> "Answer", res |-> into_response(call(m, r))]
      [] m = "Teapot"  ->
            IF TeapotAnswers(r)
            THEN [act |-> "Next", times |-> 1]
            ELSE [act |-> "Answer", res |-> ResponseWithStatus("ImATeapot")]

\* What Middleware::process of a middleware does with a request: it answers
\* with a response of its own, or it calls next.handle (once or twice) and
\* returns what that returned.
process(m, r) ==
    CASE m = "Forward" -> [act |-> "Next", times |-> 1]
      [] m = "Twice"   -> [act |-> "Next", times |-> 2]
      [] m = "Answer"  -> [act |-> "Answer", res |-> ResponseWithStatus("Ok")]
      [] m \in {"AnswerOk", "Fails"} ->
            [act |-> "Answer", res |-> into_response(call(m, r))]
      [] m = "Teapot"  ->
            IF TeapotAnswers(r)
            THEN [act |-> "Answer", res |-> ResponseWithStatus("ImATeapot")]
            ELSE [act |-> "Next", times |-> 1]

---------------------------------------------------------------------------
(* Routes, matchers and scopes (handler/matcher, handler/scope).           *)

Static(text) == [seg |-> "Static", text |-> text]

Wildcard(id) == [seg |-> "Wildcard", text |-> id]

\* Route::from_str("/{*rest}")
RestRoute == << Wildcard("rest") >>

\* Route::append
RouteAppend(base, rest) == base \o rest

\* Matcher::new
MatcherNew == [routes |-> <<>>]

\* Matcher::add: a wildcard is legal only as the final segment, and a
\* structural duplicate of a registered route is rejected.
MatcherAdd(matcher, route) ==
    IF \E i \in 1..(Len(route) - 1) : route[i].seg = "Wildcard"
    THEN Err("Matcher", "wildcard must be the final segment")
    ELSE IF \E i \in 1..Len(matcher.routes) : matcher.routes[i] = route
    THEN Err("Matcher", "duplicate route")
    ELSE Ok([routes |-> Append(matcher.routes, route)])

\* A segment of a route matches a segment of a path: a literal matches
\* itself, a wildcard any segment.
SegmentMatches(segment, text) ==
    segment.seg = "Static" => segment.text = text

\* A route matches a path, given by its segments: segment by segment, a
\* final wildcard matching one or more remaining segments.
RouteMatches(route, path) ==
    IF route # <<>> /\ route[Len(route)].seg = "Wildcard"
    THEN /\ Len(path) >= Len(route)
         /\ \A i \in 1..(Len(route) - 1) : SegmentMatches(route[i], path[i])
    ELSE /\ Len(path) = Len(route)
         /\ \A i \in 1..Len(route) : SegmentMatches(route[i], path[i])

\* Matcher::matches: some route of the matcher matches the path.
MatcherMatches(matcher, path) ==
    \E i \in 1..Len(matcher.routes) : RouteMatches(matcher.routes[i], path)

\* Scope::default: the root mount, no base route.
ScopeDefault == [route |-> None]

\* The scopes resolution is called with: the root, a mount under /api, and
\* a mount whose base route already ends in a wildcard.
Scopes ==
    { ScopeDefault,
      [route |-> Some(<< Static("api") >>)],
      [route |-> Some(<< Static("files"), Wildcard("path") >>)] }

---------------------------------------------------------------------------
(* Middleware conversion (middleware.rs, TryIntoMiddleware).               *)

\* What `with` is handed: something convertible into a middleware.
\*   conv = "Ok"       a Middleware (the blanket impl: always converts);
\*   conv = "Fail"     an implementor whose conversion fails with `err`;
\*   conv = "Mounted"  an implementor that validates its mount location and
\*                     converts only under a Scope with a base route.
Convertibles ==
    { [conv |-> "Ok", mw |-> m, err |-> "-"] : m \in MiddlewareKinds }
    \cup { [conv |-> "Fail", mw |-> "-", err |-> e] : e \in {"E1", "E2"} }
    \cup { [conv |-> "Mounted", mw |-> "Forward", err |-> "no mount"] }

\* TryIntoMiddleware::try_into_middleware of a convertible.
TryInto(c, sc) ==
    CASE c.conv = "Ok"      -> Ok(c.mw)
      [] c.conv = "Fail"    -> Err("Middleware", c.err)
      [] c.conv = "Mounted" ->
            IF sc.route = None
            THEN Err("Middleware", c.err)
            ELSE Ok(c.mw)

---------------------------------------------------------------------------
(* The stack builder (handler/stack/builder.rs).                           *)

\* Builder::new
BuilderNew == <<>>

\* A push that inserts at the front.
pushFront(middlewares, c) == <<c>> \o middlewares

\* Builder::push: boxes the conversion as a factory and pushes it.
push(middlewares, c) == Append(middlewares, c)

\* A collection that invokes every factory before it looks for an error.
RECURSIVE CollectAll(_, _, _, _, _)
CollectAll(fs, sc, i, out, inv) ==
    IF i > Len(fs)
    THEN LET bad == {j \in 1..Len(out) : out[j].tag = "Err"}
         IN  [res |-> IF bad = {}
                      THEN Ok([j \in 1..Len(out) |-> out[j].val])
                      ELSE out[CHOOSE j \in bad : \A k \in bad : j <= k],
              invoked |-> inv]
    ELSE CollectAll(fs, sc, i + 1, Append(out, TryInto(fs[i], sc)),
                    Append(inv, i))

\* iter.collect::<Result<_>>() over the lazily mapped factories: the
\* factories are invoked one by one, and the first Err ends the iteration.
\* `out` are the middlewares so far, `inv` the factories invoked so far.
RECURSIVE Collect(_, _, _, _, _)
Collect(fs, sc, i, out, inv) ==
    IF i > Len(fs)
    THEN [res |-> Ok(out), invoked |-> inv]
    ELSE LET r == TryInto(fs[i], sc)
         IN  IF r.tag = "Err"
             THEN [res |-> r, invoked |-> Append(inv, i)]
             ELSE Collect(fs, sc, i + 1, Append(out, r.val), Append(inv, i))

\* A prefix matcher that holds the base route alone.
CompileMatcherExact(sc) ==
    IF sc.route = None
    THEN Ok(None)
    ELSE MatcherAdd(MatcherNew, sc.route.val)

\* The prefix matcher of a scope: None without a base route, else the
\* matcher holding the single route <base>/{*rest}, or the Matcher error.
CompileMatcher(sc) ==
    IF sc.route = None
    THEN Ok(None)
    ELSE MatcherAdd(MatcherNew, RouteAppend(sc.route.val, RestRoute))

\* A resolution that invokes the factories first and compiles the prefix
\* matcher after them.
ResolveStackFactoriesFirst(middlewares, sc) ==
    LET c == Collect(middlewares, sc, 1, <<>>, <<>>)
        matcher == CompileMatcher(sc)
    IN  [res |-> IF c.res.tag = "Err" THEN c.res
                 ELSE IF matcher.tag = "Err" THEN matcher
                 ELSE Ok([middlewares |-> c.res.val,
                          matcher     |-> matcher.val]),
         invoked |-> c.invoked]

\* <Builder as TryIntoMiddleware>::try_into_middleware
ResolveStack(middlewares, sc) ==
    LET matcher == CompileMatcher(sc)
    IN  IF matcher.tag = "Err"
        THEN [res |-> matcher, invoked |-> <<>>]
        ELSE LET c == Collect(middlewares, sc, 1, <<>>, <<>>)
             IN  [res |-> IF c.res.tag = "Err"
                          THEN c.res
                          ELSE Ok([middlewares |-> c.res.val,
                                   matcher     |-> matcher.val]),
                  invoked |-> c.invoked]

---------------------------------------------------------------------------
(* Stack dispatch (handler/stack): Stack.process(req, fallback).           *)
(* A frame [idx, st] is a call of middleware idx in progress; idx one past *)
(* the last middleware is the call of the fallback handler.                *)

Resolved == resolution.tag = "Ok"

Middlewares == resolution.val.middlewares

Idle == frames = <<>>

Top == frames[Len(frames)]

Pop == SubSeq(frames, 1, Len(frames) - 1)

\* The frames with the innermost one's state replaced.
SetTop(st) == [frames EXCEPT ![Len(frames)].st = st]

\* A next handler that is the middleware itself.
CallNextSame(idx) == [idx |-> idx, st |-> "Run"]

\* next.handle(req) as seen from frame idx: the call of what follows it.
CallNext(idx) == [idx |-> idx + 1, st |-> "Run"]

\* A value returned by the innermost frame: to its caller, or, from the
\* outermost frame, as the result of Stack.process.
Return(res) ==
    /\ frames' = Pop
    /\ ret' = res
    /\ response' = IF Len(frames) = 1 THEN res ELSE response

---------------------------------------------------------------------------
(* Actions: the stack builder and stack dispatch.                          *)

\* A `with` that converts at once, under the default scope, and drops
\* what fails to convert.
WithEager(c) ==
    /\ resolution = None
    /\ Len(builder) < MaxMiddlewares
    /\ builder' = IF TryInto(c, ScopeDefault).tag = "Err"
                  THEN builder
                  ELSE push(builder, c)
    /\ registered' = Append(registered, c)
    /\ UNCHANGED <<scope, resolution, converted, req, fallback, frames, ret,
                   log, response>>
    /\ UNCHANGED <<parserVars, codecVars, sharedVars>>

\* Builder::with
With(c) ==
    /\ resolution = None
    /\ Len(builder) < MaxMiddlewares
    /\ builder' = push(builder, c)
    /\ registered' = Append(registered, c)
    /\ UNCHANGED <<scope, resolution, converted, req, fallback, frames, ret,
                   log, response>>
    /\ UNCHANGED <<parserVars, codecVars, sharedVars>>

\* The builder is consumed by its resolution.
Resolve(sc) ==
    LET r == ResolveStack(builder, sc)
    IN  /\ resolution = None
        /\ scope' = sc
        /\ resolution' = r.res
        /\ converted' = r.invoked
        /\ builder' = BuilderNew
        /\ UNCHANGED <<registered, req, fallback, frames, ret, log, response>>
        /\ UNCHANGED <<parserVars, codecVars, sharedVars>>

\* <Builder as TryIntoMiddleware>::try_into_middleware(scope)
try_into_middleware ==
    \E sc \in Scopes : Resolve(sc)

\* <Builder as TryIntoHandler>::try_into_handler
try_into_handler ==
    Resolve(ScopeDefault)

\* Stack.process(req, fallback) is called.
StackProcess(r, fb) ==
    /\ Resolved
    /\ Idle
    /\ req' = r
    /\ fallback' = fb
    /\ frames' = << [idx |-> 1, st |-> "Run"] >>
    /\ ret' = None
    /\ log' = <<>>
    /\ response' = None
    /\ UNCHANGED <<builder, registered, scope, resolution, converted>>
    /\ UNCHANGED <<parserVars, codecVars, sharedVars>>

\* The innermost call is a middleware's process, about to run.
MiddlewareProcess ==
    /\ ~Idle
    /\ Top.st = "Run"
    /\ Top.idx <= Len(Middlewares)
    /\ LET m == Middlewares[Top.idx]
           p == process(m, req)
       IN  /\ log' = Append(log, [idx |-> Top.idx, who |-> m])
           /\ IF p.act = "Answer"
              THEN Return(p.res)
              ELSE /\ frames' = Append(SetTop(IF p.times = 2 THEN "Again"
                                                             ELSE "Await"),
                                       CallNext(Top.idx))
                   /\ UNCHANGED <<ret, response>>
    /\ UNCHANGED <<builder, registered, scope, resolution, converted, req,
                   fallback>>
    /\ UNCHANGED <<parserVars, codecVars, sharedVars>>

\* The innermost call is the fallback's handle.
FallbackHandle ==
    /\ ~Idle
    /\ Top.st = "Run"
    /\ Top.idx = Len(Middlewares) + 1
    /\ log' = Append(log, [idx |-> Top.idx, who |-> fallback])
    /\ Return(handle(fallback, req))
    /\ UNCHANGED <<builder, registered, scope, resolution, converted, req,
                   fallback>>
    /\ UNCHANGED <<parserVars, codecVars, sharedVars>>

\* next.handle(req) returned to a forwarding middleware, which returns the
\* response as its own.
NextReturned ==
    /\ ~Idle
    /\ Top.st = "Await"
    /\ Return(ret)
    /\ UNCHANGED <<builder, registered, scope, resolution, converted, req,
                   fallback, log>>
    /\ UNCHANGED <<parserVars, codecVars, sharedVars>>

\* next.handle(req) returned to a middleware that calls it a second time.
NextAgain ==
    /\ ~Idle
    /\ Top.st = "Again"
    /\ frames' = Append(SetTop("Await"), CallNext(Top.idx))
    /\ ret' = None
    /\ UNCHANGED <<builder, registered, scope, resolution, converted, req,
                   fallback, log, response>>
    /\ UNCHANGED <<parserVars, codecVars, sharedVars>>

Next ==
    \/ \E c \in Convertibles : With(c)
    \/ try_into_middleware
    \/ try_into_handler
    \/ \E r \in Requests, fb \in Fallbacks : StackProcess(r, fb)
    \/ MiddlewareProcess
    \/ FallbackHandle
    \/ NextReturned
    \/ NextAgain

---------------------------------------------------------------------------
(* Concurrent calls of Stack.process on one Stack, shared by reference.    *)
(* Each call owns its request and its chain of next handlers; the steps of *)
(* the calls interleave.                                                   *)

Calls == 1..MaxCalls

\* No call: nothing in progress, nothing returned.
NoCall ==
    [req |-> None, fallback |-> "NotFound", frames |-> <<>>, ret |-> None,
     response |-> None]

\* The Stacks that are shared: up to two middlewares out of the Teapot and
\* the one that calls next twice.
SharedStacks ==
    UNION { [1..n -> { [conv |-> "Ok", mw |-> m, err |-> "-"] :
                          m \in {"Teapot", "Twice"} }] : n \in 0..2 }

\* The innermost frame of a call.
TopOf(c) == c.frames[Len(c.frames)]

\* The call with its innermost frame returning `res`: to the frame that
\* called it, or, from the outermost frame, as the response of the call.
Returning(c, res) ==
    [c EXCEPT !.frames = SubSeq(c.frames, 1, Len(c.frames) - 1),
              !.ret = res,
              !.response = IF Len(c.frames) = 1 THEN res ELSE @]

\* The call with its innermost frame, now in state st, calling next.
Forwarding(c, st) ==
    [c EXCEPT !.frames = Append([c.frames EXCEPT ![Len(c.frames)].st = st],
                                CallNext(TopOf(c).idx)),
              !.ret = None]

\* The call after the process of the middleware of its innermost frame.
Processed(c, m) ==
    IF process(m, c.req).act = "Answer"
    THEN Returning(c, process(m, c.req).res)
    ELSE Forwarding(c, IF process(m, c.req).times = 2 THEN "Again" ELSE "Await")

\* A Stack that keeps the response on its way back in a field of its own,
\* where the other calls find it.
StepShared(cs, i, c) ==
    [j \in DOMAIN cs |->
        IF j = i THEN c
        ELSE IF cs[j].frames # <<>> THEN [cs[j] EXCEPT !.ret = c.ret]
        ELSE cs[j]]

\* The calls after a step of call i: process(&self, ..) and handle(&self, ..)
\* touch nothing but the call's own request and frames.
Step(cs, i, c) == [cs EXCEPT ![i] = c]

\* Stack.process(req, fallback) is called, as call i.
SharedCall(i, r, fb) ==
    /\ calls[i] = NoCall
    /\ calls' = Step(calls, i, [NoCall EXCEPT !.req = r, !.fallback = fb,
                                   !.frames = << [idx |-> 1, st |-> "Run"] >>])
    /\ UNCHANGED <<stackVars, parserVars, codecVars>>

\* The innermost call of call i is a middleware's process.
SharedMiddlewareProcess(i) ==
    /\ calls[i].frames # <<>>
    /\ TopOf(calls[i]).st = "Run"
    /\ TopOf(calls[i]).idx <= Len(Middlewares)
    /\ calls' = Step(calls, i,
                     Processed(calls[i], Middlewares[TopOf(calls[i]).idx]))
    /\ UNCHANGED <<stackVars, parserVars, codecVars>>

\* The innermost call of call i is the fallback's handle.
SharedFallbackHandle(i) ==
    /\ calls[i].frames # <<>>
    /\ TopOf(calls[i]).st = "Run"
    /\ TopOf(calls[i]).idx = Len(Middlewares) + 1
    /\ calls' = Step(calls, i,
                     Returning(calls[i],
                               handle(calls[i].fallback, calls[i].req)))
    /\ UNCHANGED <<stackVars, parserVars, codecVars>>

\* In call i, next.handle(req) returned to a forwarding middleware.
SharedNextReturned(i) ==
    /\ calls[i].frames # <<>>
    /\ TopOf(calls[i]).st = "Await"
    /\ calls' = Step(calls, i, Returning(calls[i], calls[i].ret))
    /\ UNCHANGED <<stackVars, parserVars, codecVars>>

\* In call i, next.handle(req) returned to a middleware that calls it a
\* second time.
SharedNextAgain(i) ==
    /\ calls[i].frames # <<>>
    /\ TopOf(calls[i]).st = "Again"
    /\ calls' = Step(calls, i, Forwarding(calls[i], "Await"))
    /\ UNCHANGED <<stackVars, parserVars, codecVars>>

\* A Stack was resolved, and is shared.
SharedInit ==
    /\ registered \in SharedStacks
    /\ scope \in {ScopeDefault, [route |-> Some(<< Static("api") >>)]}
    /\ resolution = ResolveStack(registered, scope).res
    /\ converted = ResolveStack(registered, scope).invoked
    /\ builder = BuilderNew
    /\ req = None
    /\ fallback = "NotFound"
    /\ frames = <<>>
    /\ ret = None
    /\ log = <<>>
    /\ response = None
    /\ calls = [i \in Calls |-> NoCall]

---------------------------------------------------------------------------
(* Percent-encoding (http/request/uri/encoding.rs, on the percent_encoding *)
(* crate) and the lossy UTF-8 decoding of the standard library.            *)

\* percent_encoding::CONTROLS: the C0 controls and DEL.
CONTROLS == (0..31) \cup {127}

\* URI_PATH without the percent sign.
URI_PATH_NoPercent ==
    CONTROLS \cup {32, 34, 35, 60, 62, 63, 91, 93, 94, 96, 123, 124, 125, 126}

\* URI_PATH: space " # % < > ? [ ] ^ ` { | } ~
URI_PATH ==
    CONTROLS \cup {32, 34, 35, 37, 60, 62, 63, 91, 93, 94, 96, 123, 124, 125, 126}

\* URI_QUERY without the space.
URI_QUERY_NoSpace ==
    CONTROLS \cup {34, 35, 37, 60, 62, 91, 93, 94, 96, 123, 124, 125}

\* URI_QUERY: space " # % < > [ ] ^ ` { | }
URI_QUERY ==
    CONTROLS \cup {32, 34, 35, 37, 60, 62, 91, 93, 94, 96, 123, 124, 125}

\* An ASCII hex digit, of either case.
IsHexDigit(b) == b \in (48..57) \cup (65..70) \cup (97..102)

\* The value of a hex digit.
HexVal(b) ==
    IF b \in 48..57 THEN b - 48
    ELSE IF b \in 65..70 THEN b - 55
    ELSE b - 87

\* The upper-case hex digit of a value below 16.
HexDigit(n) == IF n < 10 THEN 48 + n ELSE 55 + n

\* AsciiSet::should_percent_encode: every non-ASCII byte, and the set.
ShouldPercentEncode(b, set) == b >= 128 \/ b \in set

\* utf8_percent_encode(value, set): each byte to encode becomes %XX.
RECURSIVE PercentEncode(_, _, _)
PercentEncode(s, set, i) ==
    IF i > Len(s)
    THEN <<>>
    ELSE (IF ShouldPercentEncode(s[i], set)
          THEN <<37, HexDigit(s[i] \div 16), HexDigit(s[i] % 16)>>
          ELSE <<s[i]>>) \o PercentEncode(s, set, i + 1)

\* The first index from i on whose byte satisfies Stop, Len(s) + 1 if none.
FirstFrom(s, i, Stop(_)) ==
    LET hits == {j \in i..Len(s) : Stop(s[j])}
    IN  IF hits = {} THEN Len(s) + 1
        ELSE CHOOSE j \in hits : \A k \in hits : j <= k

\* percent_decode_str(value): a percent sign followed by two hex digits is
\* the byte they spell, every other byte (a stray percent sign too) is
\* itself. Bytes up to the next percent sign are copied in one step.
RECURSIVE PercentDecode(_, _)
PercentDecode(s, i) ==
    IF i > Len(s)
    THEN <<>>
    ELSE IF s[i] = 37
    THEN IF i + 2 <= Len(s) /\ IsHexDigit(s[i + 1]) /\ IsHexDigit(s[i + 2])
         THEN <<16 * HexVal(s[i + 1]) + HexVal(s[i + 2])>>
                  \o PercentDecode(s, i + 3)
         ELSE <<37>> \o PercentDecode(s, i + 1)
    ELSE LET IsPercent(b) == b = 37
             j == FirstFrom(s, i, IsPercent)
         IN  SubSeq(s, i, j - 1) \o PercentDecode(s, j)

\* U+FFFD REPLACEMENT CHARACTER, in UTF-8.
REPLACEMENT == <<239, 191, 189>>

\* The byte at i, 0 past the end (Utf8Chunks' safe_get).
SafeGet(s, i) == IF i <= Len(s) THEN s[i] ELSE 0

\* A UTF-8 continuation byte.
IsCont(b) == b \in 128..191

\* The character starting at i: whether it is valid UTF-8, and its length;
\* for an invalid one, the length of the maximal invalid part.
Utf8Chunk(s, i) ==
    LET b  == s[i]
        b2 == SafeGet(s, i + 1)
        b3 == SafeGet(s, i + 2)
        b4 == SafeGet(s, i + 3)
        Bad(n)  == [valid |-> FALSE, len |-> n]
        Good(n) == [valid |-> TRUE, len |-> n]
    IN  IF b < 128 THEN Good(1)
        ELSE IF b \in 194..223
        THEN IF IsCont(b2) THEN Good(2) ELSE Bad(1)
        ELSE IF b \in 224..239
        THEN IF ~ \/ b = 224 /\ b2 \in 160..191
                  \/ b \in 225..236 /\ b2 \in 128..191
                  \/ b = 237 /\ b2 \in 128..159
                  \/ b \in 238..239 /\ b2 \in 128..191
             THEN Bad(1)
             ELSE IF IsCont(b3) THEN Good(3) ELSE Bad(2)
        ELSE IF b \in 240..244
        THEN IF ~ \/ b = 240 /\ b2 \in 144..191
                  \/ b \in 241..243 /\ b2 \in 128..191
                  \/ b = 244 /\ b2 \in 128..143
             THEN Bad(1)
             ELSE IF ~IsCont(b3) THEN Bad(2)
             ELSE IF ~IsCont(b4) THEN Bad(3)
             ELSE Good(4)
        ELSE Bad(1)

\* String::from_utf8_lossy: valid characters are kept, each maximal invalid
\* part becomes U+FFFD. A run of ASCII is copied in one step.
RECURSIVE Utf8Lossy(_, _)
Utf8Lossy(s, i) ==
    IF i > Len(s)
    THEN <<>>
    ELSE IF s[i] < 128
    THEN LET NonAscii(b) == b >= 128
             j == FirstFrom(s, i, NonAscii)
         IN  SubSeq(s, i, j - 1) \o Utf8Lossy(s, j)
    ELSE LET c == Utf8Chunk(s, i)
         IN  (IF c.valid THEN SubSeq(s, i, i + c.len - 1) ELSE REPLACEMENT)
                 \o Utf8Lossy(s, i + c.len)

\* str::from_utf8(bytes).is_ok()
RECURSIVE IsUtf8(_, _)
IsUtf8(s, i) ==
    IF i > Len(s)
    THEN TRUE
    ELSE IF s[i] < 128
    THEN LET NonAscii(b) == b >= 128
         IN  IsUtf8(s, FirstFrom(s, i, NonAscii))
    ELSE LET c == Utf8Chunk(s, i)
         IN  c.valid /\ IsUtf8(s, i + c.len)

\* encode(value, kind)
encode(v, k) ==
    LET set == IF k = "Path" THEN URI_PATH ELSE URI_QUERY
    IN  PercentEncode(v, set, 1)

\* decode(value)
decode(v) == Utf8Lossy(PercentDecode(v, 1), 1)

\* The characters of the strings handed to encode, each in UTF-8:
\* a % space ? ~ 4 1 NUL and e-acute.
Chars ==
    { <<97>>, <<37>>, <<32>>, <<63>>, <<126>>, <<52>>, <<49>>, <<0>>,
      <<195, 169>> }

\* The strings handed to encode: every string of at most MaxStrLen of these
\* characters, and every string of one ASCII character.
CodecInputs ==
    { Concat(cs) : cs \in UNION { [1..n -> Chars] : n \in 0..MaxStrLen } }
    \cup { <<c>> : c \in 0..127 }

---------------------------------------------------------------------------
(* Actions: percent-encoding.                                              *)

Encode ==
    /\ encoded = None
    /\ encoded' = Some(encode(value, kind))
    /\ UNCHANGED <<value, kind, decoded>>
    /\ UNCHANGED <<stackVars, parserVars, sharedVars>>

Decode ==
    /\ encoded # None
    /\ decoded = None
    /\ decoded' = Some(decode(encoded.val))
    /\ UNCHANGED <<value, kind, encoded>>
    /\ UNCHANGED <<stackVars, parserVars, sharedVars>>

CodecInit ==
    /\ value \in CodecInputs
    /\ kind \in {"Path", "Query"}
    /\ encoded = None
    /\ decoded = None

---------------------------------------------------------------------------
(* The request head parser: httparse::Request::parse, as called by         *)
(* Request::from_bytes with an array of MaxHeaders headers.                *)

\* "GET", "POST" and "BREW"
GET == <<71, 69, 84>>

POST == <<80, 79, 83, 84>>

BREW == <<66, 82, 69, 87>>

\* "HTTP/1.0" and "HTTP/1.1"
HTTP10 == <<72, 84, 84, 80, 47, 49, 46, 48>>

HTTP11 == <<72, 84, 84, 80, 47, 49, 46, 49>>

\* The header names "Accept", "Content-Length" and "X-A".
ACCEPT == <<65, 99, 99, 101, 112, 116>>

CONTENT_LENGTH ==
    <<67, 111, 110, 116, 101, 110, 116, 45, 76, 101, 110, 103, 116, 104>>

X_A == <<88, 45, 65>>

\* A token character (RFC 9110 tchar): method and header name bytes.
IsToken(b) ==
    b \in {33, 35, 36, 37, 38, 39, 42, 43, 45, 46, 94, 95, 96, 124, 126}
          \cup (48..57) \cup (65..90) \cup (97..122)

NotToken(b) == ~IsToken(b)

\* A byte of a request target: the visible ASCII characters. (Releases of
\* httparse differ on the bytes " < > and on those from 128 on, which the
\* requests of this model do not hold.)
IsUriToken(b) == b \in 33..126

NotUriToken(b) == ~IsUriToken(b)

\* A byte of a header value: tab, space, visible ASCII, and 128 on.
IsHeaderValueToken(b) == b = 9 \/ b \in 32..126 \/ b >= 128

NotHeaderValueToken(b) == ~IsHeaderValueToken(b)

NotBlank(b) == b # 32 /\ b # 9

Partial == [st |-> "Partial"]

Failed(e) == [st |-> "Error", err |-> e]

\* A stage is complete: its value, and the position of the next byte.
Complete(v, pos) == [st |-> "Complete", val |-> v, pos |-> pos]

\* skip_empty_lines: empty lines before the request line are skipped.
RECURSIVE SkipEmptyLines(_, _)
SkipEmptyLines(b, i) ==
    IF i > Len(b) THEN Partial
    ELSE IF b[i] = 13
    THEN IF i + 1 > Len(b) THEN Partial
         ELSE IF b[i + 1] = 10 THEN SkipEmptyLines(b, i + 2)
         ELSE Failed("NewLine")
    ELSE IF b[i] = 10 THEN SkipEmptyLines(b, i + 1)
    ELSE Complete(<<>>, i)

\* parse_method: a non-empty token ended by a space.
ParseMethod(b, i) ==
    LET e == FirstFrom(b, i, NotToken)
    IN  IF e > Len(b) THEN Partial
        ELSE IF b[e] = 32 /\ e > i THEN Complete(SubSeq(b, i, e - 1), e + 1)
        ELSE Failed("Token")

\* parse_uri: a non-empty run of target bytes ended by a space.
ParseUri(b, i) ==
    LET e == FirstFrom(b, i, NotUriToken)
    IN  IF e > Len(b) THEN Partial
        ELSE IF b[e] = 32 /\ e > i THEN Complete(SubSeq(b, i, e - 1), e + 1)
        ELSE Failed("Token")

\* parse_version: with eight bytes at hand they must spell a version; with
\* fewer, they must start one, and the version is incomplete.
ParseVersion(b, i) ==
    LET avail == Len(b) - i + 1
    IN  IF avail >= 8
        THEN IF SubSeq(b, i, i + 7) \in {HTTP10, HTTP11}
             THEN Complete(SubSeq(b, i, i + 7), i + 8)
             ELSE Failed("Version")
        ELSE IF SubSeq(b, i, Len(b)) = SubSeq(HTTP11, 1, avail)
             THEN Partial
             ELSE Failed("Version")

\* newline!: CR LF, or a bare LF.
ParseNewline(b, i) ==
    IF i > Len(b) THEN Partial
    ELSE IF b[i] = 13
    THEN IF i + 1 > Len(b) THEN Partial
         ELSE IF b[i + 1] = 10 THEN Complete(<<>>, i + 2)
         ELSE Failed("NewLine")
    ELSE IF b[i] = 10 THEN Complete(<<>>, i + 1)
    ELSE Failed("NewLine")

\* A header value without its trailing spaces and tabs.
TrimRight(v) ==
    LET keep == {j \in 1..Len(v) : NotBlank(v[j])}
    IN  IF keep = {} THEN <<>>
        ELSE SubSeq(v, 1, CHOOSE j \in keep : \A k \in keep : k <= j)

\* A header line is parsed: its header, and the position after the line.
Header(h, pos) == [st |-> "Header", val |-> h, pos |-> pos]

\* The end of a header line: the value, scanned up to w, is ended by CR LF
\* or by a bare LF.
HeaderEnd(b, name, v, w) ==
    IF w > Len(b) THEN Partial
    ELSE IF b[w] = 13
    THEN IF w + 1 > Len(b) THEN Partial
         ELSE IF b[w + 1] = 10
         THEN Header([name |-> name, value |-> TrimRight(SubSeq(b, v, w - 1))],
                     w + 2)
         ELSE Failed("HeaderValue")
    ELSE IF b[w] = 10
    THEN Header([name |-> name, value |-> TrimRight(SubSeq(b, v, w - 1))], w + 1)
    ELSE Failed("HeaderValue")

\* The value of a header line, from v on: the bytes of a header value.
HeaderValue(b, name, v) ==
    HeaderEnd(b, name, v, FirstFrom(b, v, NotHeaderValueToken))

\* The name of a header line, scanned from i up to e: a colon ends it, and
\* the spaces and tabs after the colon are skipped.
HeaderName(b, i, e) ==
    IF e > Len(b) THEN Partial
    ELSE IF b[e] # 58 THEN Failed("HeaderName")
    ELSE HeaderValue(b, SubSeq(b, i, e - 1), FirstFrom(b, e + 1, NotBlank))

\* An array of headers with one slot more.
HeaderSlotsMore == [i \in 1..(MaxHeaders + 1) |-> [name |-> <<>>, value |-> <<>>]]

\* let mut headers = [httparse::EMPTY_HEADER; 64]: the array that from_bytes
\* hands to httparse, one empty slot for each header it can hold.
HeaderSlots == [i \in 1..MaxHeaders |-> [name |-> <<>>, value |-> <<>>]]

\* One round of the loop of parse_headers_iter, at the start i of a line,
\* with k - 1 headers parsed before it: the empty line that ends the head,
\* a header, or the loop's exit with Partial or an error. A header
\* takes the next slot of the array, and there is an error when none is left.
HeaderLine(b, i, k) ==
    IF i > Len(b) THEN Partial
    ELSE IF b[i] = 13
    THEN IF i + 1 > Len(b) THEN Partial
         ELSE IF b[i + 1] = 10 THEN Complete(<<>>, i + 2)
         ELSE Failed("NewLine")
    ELSE IF b[i] = 10 THEN Complete(<<>>, i + 1)
    ELSE IF ~IsToken(b[i]) THEN Failed("HeaderName")
    ELSE IF k > Len(HeaderSlots) THEN Failed("TooManyHeaders")
    ELSE HeaderName(b, i, FirstFrom(b, i, NotToken))

\* parse_headers_iter: the loop over the header lines from i on, with the
\* headers hs parsed so far.
RECURSIVE ParseHeaders(_, _, _)

\* The loop goes on after a header, and ends with the empty line, Partial
\* or an error.
NextHeader(b, hs, r) ==
    IF r.st = "Header" THEN ParseHeaders(b, r.pos, Append(hs, r.val))
    ELSE IF r.st = "Complete" THEN Complete(hs, r.pos)
    ELSE r

ParseHeaders(b, i, hs) == NextHeader(b, hs, HeaderLine(b, i, Len(hs) + 1))

\* The stages of httparse::Request::parse, each entered with the result of
\* the stage before it: Partial and errors end the parse.
AfterHeaders(method, path, headers) ==
    IF headers.st # "Complete" THEN headers
    ELSE [st      |-> "Complete",
          n       |-> headers.pos - 1,
          method  |-> method.val,
          path    |-> path.val,
          headers |-> headers.val]

AfterNewline(b, method, path, newline) ==
    IF newline.st # "Complete" THEN newline
    ELSE AfterHeaders(method, path, ParseHeaders(b, newline.pos, <<>>))

AfterVersion(b, method, path, version) ==
    IF version.st # "Complete" THEN version
    ELSE AfterNewline(b, method, path, ParseNewline(b, version.pos))

AfterUri(b, method, path) ==
    IF path.st # "Complete" THEN path
    ELSE AfterVersion(b, method, path, ParseVersion(b, path.pos))

AfterMethod(b, method) ==
    IF method.st # "Complete" THEN method
    ELSE AfterUri(b, method, ParseUri(b, method.pos))

AfterSkip(b, skip) ==
    IF skip.st # "Complete" THEN skip
    ELSE AfterMethod(b, ParseMethod(b, skip.pos))

\* httparse::Request::parse: Complete with the count n of bytes of the
\* head, the method, the target and the headers, or Partial, or an error.
HttparseParse(b) == AfterSkip(b, SkipEmptyLines(b, 1))

---------------------------------------------------------------------------
(* Request::from_bytes (http/request.rs).                                  *)

\* Method::from_str: the method of a token of the catalog.
MethodFromStr(token) ==
    IF token = GET THEN Ok("Get")
    ELSE IF token = POST THEN Ok("Post")
    ELSE Err("Component", "invalid method")

\* Header::from_str: the header of a name of the catalog.
HeaderFromStr(name) ==
    IF name = ACCEPT THEN Ok("Accept")
    ELSE IF name = CONTENT_LENGTH THEN Ok("ContentLength")
    ELSE Err("Component", "invalid header")

IsQuestionMark(b) == b = 63

\* Uri::from: the raw path up to the first `?`, the query after it.
UriFrom(raw) ==
    LET q == FirstFrom(raw, 1, IsQuestionMark)
    IN  [path  |-> SubSeq(raw, 1, q - 1),
         query |-> IF q > Len(raw) THEN None
                   ELSE Some(SubSeq(raw, q + 1, Len(raw)))]

\* `pat` occurs in `v` (str::contains).
Contains(v, pat) ==
    \E i \in 1..(Len(v) - Len(pat) + 1) :
        \A j \in 1..Len(pat) : v[i + j - 1] = pat[j]

\* A Partial status mistaken for an error of the parser.
PartialAsParser == Err("Parser", "Partial")

\* Status::Partial => Err(Error::Incomplete)
OnPartial == Err("Incomplete", "-")

\* A URI stored percent-decoded.
RequestUriDecoded(path) == UriFrom(decode(path))

\* let uri = Uri::from(req.path.expect("invariant"))
RequestUri(path) == UriFrom(path)

\* A header kept without the UTF-8 check of its value.
HeaderEntryUnchecked(h) ==
    LET name == HeaderFromStr(h.name)
    IN  IF name.tag = "Ok" THEN << <<name.val, h.value>> >> ELSE <<>>

\* The closure of filter_map: the (name, value) entry of a header whose
\* value is UTF-8 and whose name is in the catalog, nothing otherwise.
HeaderEntry(h) ==
    IF ~IsUtf8(h.value, 1) THEN <<>>
    ELSE LET name == HeaderFromStr(h.name)
         IN  IF name.tag = "Ok" THEN << <<name.val, h.value>> >> ELSE <<>>

\* iter.take_while(..).filter_map(..).collect(): the entries of the
\* parsed headers, in their order.
CollectHeaders(hs) == Concat([k \in 1..Len(hs) |-> HeaderEntry(hs[k])])

\* A size check that rejects the limit itself.
PathTooLongFrom(uri) == Len(uri.path) >= MaxPathBytes

\* uri.path.len() > 4 * 1024
PathTooLong(uri) == Len(uri.path) > MaxPathBytes

\* uri.path.contains("..")
PathTraversal(uri) == Contains(uri.path, <<46, 46>>)

\* The checks of the path made first, the traversal before the size, and
\* the method looked at last.
ValidatedPathFirst(method, uri, headers, body) ==
    IF PathTraversal(uri) THEN Err("Security", "path traversal")
    ELSE IF PathTooLong(uri) THEN Err("Security", "exceeds size of 4kb")
    ELSE IF method.tag = "Err" THEN method
    ELSE Ok([method  |-> method.val,
             uri     |-> uri,
             headers |-> headers,
             body    |-> body])

\* The checks of the path, and the request returned.
Validated(method, uri, headers, body) ==
    IF method.tag = "Err" THEN method
    ELSE IF PathTooLong(uri) THEN Err("Security", "exceeds size of 4kb")
    ELSE IF PathTraversal(uri) THEN Err("Security", "path traversal")
    ELSE Ok([method  |-> method.val,
             uri     |-> uri,
             headers |-> headers,
             body    |-> body])

\* A body that starts with the buffer.
RequestBodyFromStart(bytes, n) == SubSeq(bytes, 1, Len(bytes) - n)

\* let body = Cow::Borrowed(&bytes[n..])
RequestBody(bytes, n) == SubSeq(bytes, n + 1, Len(bytes))

\* match req.parse(bytes).map_err(Error::from)? { .. }
OnStatus(bytes, r) ==
    IF r.st = "Error" THEN Err("Parser", r.err)
    ELSE IF r.st = "Partial" THEN OnPartial
    ELSE Validated(MethodFromStr(r.method),
                   RequestUri(r.path),
                   CollectHeaders(r.headers),
                   RequestBody(bytes, r.n))

\* Request::from_bytes
from_bytes(bytes) == OnStatus(bytes, HttparseParse(bytes))

---------------------------------------------------------------------------
(* The requests of the model, as the client composes them.                 *)

\* A header line: its name and its value.
Line(name, v) == [name |-> name, value |-> v]

\* The header lines a request is composed of: `Accept: a`,
\* `Content-Length: 2`, `X-A: a` (a name outside the catalog) and
\* `Accept: <FF>` (a value that is not UTF-8).
HeaderLines ==
    { Line(ACCEPT, <<97>>), Line(CONTENT_LENGTH, <<50>>), Line(X_A, <<97>>),
      Line(ACCEPT, <<255>>) }

\* The targets of short requests: / /a /.. /a?.. /%41, the empty target
\* and one with a space in it.
ShortTargets ==
    { <<47>>, <<47, 97>>, <<47, 46, 46>>, <<47, 97, 63, 46, 46>>,
      <<47, 37, 52, 49>>, <<>>, <<47, 32, 97>> }

\* The byte b, n times.
Pad(b, n) == [i \in 1..n |-> b]

\* The targets whose path is MaxPathBytes long, or one byte longer: one of
\* / /.. /%41 filled up with `a`, with or without the query `?..`.
LongTargets ==
    { (start \o Pad(97, n - Len(start))) \o query :
        start \in { <<47>>, <<47, 46, 46>>, <<47, 37, 52, 49>> },
        n \in {MaxPathBytes, MaxPathBytes + 1},
        query \in { <<>>, <<63, 46, 46>> } }

Request(method, target, headers, body) ==
    [form |-> "request", method |-> method, target |-> target,
     headers |-> headers, body |-> body]

\* Short requests: up to MaxHeaderLines header lines, with or without body.
ShortWires ==
    { Request(m, t, hs, body) :
        m \in {GET, BREW},
        t \in ShortTargets,
        hs \in UNION { [1..n -> HeaderLines] : n \in 0..MaxHeaderLines },
        body \in { <<>>, <<104, 105>> } }

\* Requests with a long path.
LongWires ==
    { Request(m, t, <<>>, <<>>) : m \in {GET, BREW}, t \in LongTargets }

\* Requests with about MaxHeaders header lines: one line, then another one
\* over and over.
ManyHeaderWires ==
    { Request(GET, <<47>>, <<first>> \o [i \in 1..(n - 1) |-> rest], <<>>) :
        first \in { Line(ACCEPT, <<97>>), Line(X_A, <<97>>) },
        rest \in { Line(ACCEPT, <<97>>), Line(X_A, <<97>>) },
        n \in {MaxHeaders - 1, MaxHeaders, MaxHeaders + 1} }

\* Arbitrary bytes: G, space, /, CR, LF, NUL and colon.
JunkWires ==
    { [form |-> "raw", method |-> <<>>, target |-> <<>>, headers |-> <<>>,
       body |-> bytes] :
        bytes \in UNION { [1..n -> {71, 32, 47, 13, 10, 0, 58}] :
                            n \in 0..MaxJunkLen } }

Wires == ShortWires \cup LongWires \cup ManyHeaderWires \cup JunkWires

\* The bytes of the header lines: `name: value CR LF` each.
RenderHeaders(hs) ==
    Concat([k \in 1..Len(hs) |->
               hs[k].name \o <<58, 32>> \o hs[k].value \o <<13, 10>>])

\* The request line: METHOD SP target SP HTTP/1.1 CR LF.
RequestLine(w) ==
    w.method \o <<32>> \o w.target \o <<32>> \o HTTP11 \o <<13, 10>>

\* The bytes on the wire.
Render(w) ==
    IF w.form = "raw" THEN w.body
    ELSE RequestLine(w) \o RenderHeaders(w.headers) \o <<13, 10>> \o w.body

---------------------------------------------------------------------------
(* Actions: the transport reads a request and has it parsed, reading more  *)
(* and parsing again when the request is incomplete.                       *)

CanRead ==
    /\ parsed \in {None, Err("Incomplete", "-")}
    /\ Len(buf) < Len(Render(wire))

ReadByte ==
    /\ CanRead
    /\ Len(buf) < MaxTrickle
    /\ buf' = SubSeq(Render(wire), 1, Len(buf) + 1)
    /\ parsed' = None
    /\ UNCHANGED wire
    /\ UNCHANGED <<stackVars, codecVars, sharedVars>>

ReadRest ==
    /\ CanRead
    /\ buf' = Render(wire)
    /\ parsed' = None
    /\ UNCHANGED wire
    /\ UNCHANGED <<stackVars, codecVars, sharedVars>>

FromBytes ==
    /\ wire # None
    /\ parsed = None
    /\ parsed' = from_bytes(buf)
    /\ UNCHANGED <<wire, buf>>
    /\ UNCHANGED <<stackVars, codecVars, sharedVars>>

ParserInit ==
    /\ wire \in Wires
    /\ buf = <<>>
    /\ parsed = None

StackIdle ==
    /\ builder = BuilderNew
    /\ registered = <<>>
    /\ scope = None
    /\ resolution = None
    /\ converted = <<>>
    /\ req = None
    /\ fallback = "NotFound"
    /\ frames = <<>>
    /\ ret = None
    /\ log = <<>>
    /\ response = None

SharedIdle == calls = [i \in Calls |-> NoCall]

ParserIdle == wire = None /\ buf = <<>> /\ parsed = None

CodecIdle == value = <<>> /\ kind = "Path" /\ encoded = None /\ decoded = None

Init == StackIdle /\ ParserIdle /\ CodecIdle /\ SharedIdle

Spec == Init /\ [][Next]_vars

\* The percent-encoding on its own: a string is encoded, the result decoded.
InitEncoding == StackIdle /\ ParserIdle /\ CodecInit /\ SharedIdle

NextEncoding == Encode \/ Decode

SpecEncoding == InitEncoding /\ [][NextEncoding]_vars

\* The parser on its own: a request is read and parsed.
InitParser == StackIdle /\ ParserInit /\ CodecIdle /\ SharedIdle

NextParser == ReadByte \/ ReadRest \/ FromBytes

SpecParser == InitParser /\ [][NextParser]_vars

\* Concurrent calls on a shared Stack: two requests and two fallbacks.
InitShared == SharedInit /\ ParserIdle /\ CodecIdle

NextShared ==
    \/ \E i \in Calls, r \in {rq \in Requests : rq.method = "Get"},
          fb \in {"NotFound", "Hello"} : SharedCall(i, r, fb)
    \/ \E i \in Calls : SharedMiddlewareProcess(i)
    \/ \E i \in Calls : SharedFallbackHandle(i)
    \/ \E i \in Calls : SharedNextReturned(i)
    \/ \E i \in Calls : SharedNextAgain(i)

SpecShared == InitShared /\ [][NextShared]_vars

---------------------------------------------------------------------------
(* Properties of the stack builder and of stack dispatch.                  *)

\* Resolution got past the compilation of the prefix matcher.
MatcherCompiled == resolution # None /\ CompileMatcher(scope).tag = "Ok"

\* Registered middleware k is the first whose conversion fails.
FirstFailure(k) ==
    /\ TryInto(registered[k], scope).tag = "Err"
    /\ \A j \in 1..(k - 1) : TryInto(registered[j], scope).tag = "Ok"

\* C1: resolution invokes the factories in registration order and is
\* fail-fast: when registered middleware k is the first whose conversion
\* fails, resolution returns exactly that conversion's error and no Stack,
\* and the factories invoked are exactly 1..k, in that order: none after k.
C1_FailFast ==
    MatcherCompiled =>
        \A k \in 1..Len(registered) :
            FirstFailure(k) =>
                /\ resolution = TryInto(registered[k], scope)
                /\ resolution.tag = "Err"
                /\ converted = [j \in 1..k |-> j]

\* The second of three registered middlewares failed, the third would have
\* failed with another error, and was not invoked.
C1_Witness ==
    /\ MatcherCompiled
    /\ Len(registered) = 3
    /\ FirstFailure(2)
    /\ registered[3].conv = "Fail"
    /\ registered[3].err # registered[2].err
    /\ resolution = Err("Middleware", registered[2].err)
    /\ converted = <<1, 2>>

\* The middleware registered at position i of a resolved stack.
RegisteredAt(i) == TryInto(registered[i], scope).val

\* The call is over: Stack.process has returned.
Returned == response # None

\* C2: Stack.process runs the middlewares strictly in registration order.
\* The first invocation is that of the first registered middleware (of the
\* fallback, for an empty stack); the invocation at position i is that of
\* the middleware registered i-th, the one past the last is the fallback's;
\* an invocation is followed by that of the next position, or (a middleware
\* calling next again) by one further up, never by the first middleware.
\* With no middleware calling next twice the j-th invocation is position j.
\* [A (forwards), B (answers 200)] returns 200 with A invoked before B, and
\* an empty stack returns the fallback's response.
C2_RegistrationOrder ==
    Resolved =>
        /\ \A j \in 1..Len(log) :
              /\ log[j].idx \in 1..(Len(registered) + 1)
              /\ log[j].who = IF log[j].idx <= Len(registered)
                              THEN RegisteredAt(log[j].idx)
                              ELSE fallback
              /\ j = 1 => log[j].idx = 1
              /\ j > 1 => log[j].idx \in 2..(log[j - 1].idx + 1)
              /\ (\A i \in 1..Len(registered) : registered[i].mw # "Twice")
                    => log[j].idx = j
        /\ ( /\ Returned
             /\ Len(registered) = 2
             /\ registered[1].mw = "Forward"
             /\ registered[2].mw = "Answer" )
           => /\ response.status = "Ok"
              /\ log = << [idx |-> 1, who |-> "Forward"],
                          [idx |-> 2, who |-> "Answer"] >>
        /\ (Returned /\ registered = <<>>)
           => /\ response = handle(fallback, req)
              /\ log = << [idx |-> 1, who |-> fallback] >>

\* [A (always forwards), B (always answers 200)] has returned 200.
C2_Witness ==
    /\ Resolved
    /\ Returned
    /\ Len(registered) = 2
    /\ registered[1] = [conv |-> "Ok", mw |-> "Forward", err |-> "-"]
    /\ registered[2] = [conv |-> "Ok", mw |-> "Answer", err |-> "-"]
    /\ response.status = "Ok"
    /\ Len(log) = 2

\* The middleware answers this request without calling next: it always
\* answers, or it is the Teapot asked for GET /coffee.
AnswersAlone(m, r) ==
    \/ m = "Answer"
    \/ m = "Teapot" /\ r.method = "Get" /\ r.path = "/coffee"

\* The status of the response such a middleware answers with.
AnswerStatus(m) == IF m = "Teapot" THEN "ImATeapot" ELSE "Ok"

\* C3: short-circuit. Once a middleware that answers without calling next
\* has been invoked at position i, no middleware after i and not the
\* fallback is invoked during that call, and the call returns that
\* middleware's response.
C3_ShortCircuit ==
    Resolved =>
        \A j \in 1..Len(log) :
            ( /\ log[j].idx <= Len(registered)
              /\ AnswersAlone(registered[log[j].idx].mw, req) )
            => /\ \A k \in 1..Len(log) :
                    /\ log[k].idx <= log[j].idx
                    /\ log[k].idx # Len(registered) + 1
               /\ Returned =>
                    response =
                        ResponseWithStatus(AnswerStatus(RegisteredAt(log[j].idx)))

\* [A (forwards), Teapot, B] asked for GET /coffee has returned 418: the
\* Teapot was invoked, B and the fallback were not.
C3_Witness ==
    /\ Resolved
    /\ Returned
    /\ Len(registered) = 3
    /\ registered[1].mw = "Forward"
    /\ registered[2].mw = "Teapot"
    /\ req.method = "Get"
    /\ req.path = "/coffee"
    /\ response.status = "ImATeapot"
    /\ log = << [idx |-> 1, who |-> "Forward"], [idx |-> 2, who |-> "Teapot"] >>

---------------------------------------------------------------------------
(* Properties of the request parser.                                       *)

\* The bytes of a string.
Bytes(v) == {v[i] : i \in 1..Len(v)}

\* The buffer has been parsed: `parsed` is what from_bytes made of `buf`.
Parsed == parsed # None

\* The parse failed with an error of this kind.
FailedWith(k) == parsed.tag = "Err" /\ parsed.kind = k

\* The whole request is in the buffer.
Whole == buf = Render(wire)

\* The request line of the wire is well-formed: a method that is a
\* non-empty token and a non-empty target of visible ASCII characters.
WellFormedLine(w) ==
    /\ w.form = "request"
    /\ w.method # <<>>
    /\ \A i \in 1..Len(w.method) : IsToken(w.method[i])
    /\ w.target # <<>>
    /\ \A i \in 1..Len(w.target) : w.target[i] \in 33..126

\* The method of the wire is in the catalog of methods.
KnownMethod(w) == w.method \in {GET, POST}

\* The path of the wire's target: the target up to its first `?`.
RequestPath(w) ==
    IF 63 \notin Bytes(w.target) THEN w.target
    ELSE LET q == CHOOSE i \in 1..Len(w.target) :
                      /\ w.target[i] = 63
                      /\ \A j \in 1..(i - 1) : w.target[j] # 63
         IN  SubSeq(w.target, 1, q - 1)

\* The path holds two dots in a row.
HasDotDot(path) ==
    \E i \in 1..(Len(path) - 1) : path[i] = 46 /\ path[i + 1] = 46

\* C4, as claimed: for every buffer that ends before the end of its first
\* line, and so is shorter than a complete request line, parsing returns
\* Incomplete, never Parser.
C4_ShortBufferIsIncomplete ==
    (Parsed /\ 10 \notin Bytes(buf)) => parsed = Err("Incomplete", "-")

\* C4, amended: for every buffer that is a proper prefix of a well-formed
\* request line (the empty buffer included), parsing returns Incomplete,
\* never Parser, whether or not the method is in the catalog.
C4_TruncatedRequestLineIsIncomplete ==
    ( /\ Parsed
      /\ WellFormedLine(wire)
      /\ Len(buf) < Len(RequestLine(wire))
      /\ buf = SubSeq(RequestLine(wire), 1, Len(buf)) )
    => parsed = Err("Incomplete", "-")

\* `GET / HTTP/1.1` and the carriage return, one byte short of the request
\* line, was parsed as Incomplete.
C4_Witness ==
    /\ Parsed
    /\ wire.form = "request"
    /\ buf = GET \o <<32, 47, 32>> \o HTTP11 \o <<13>>
    /\ Len(buf) = Len(RequestLine(wire)) - 1
    /\ parsed = Err("Incomplete", "-")

\* C5, as claimed: the parse of a whole request with a well-formed request
\* line, a method of the catalog and at most 64 header lines fails with
\* Security exactly when the decoded path is longer than 4096 bytes or the
\* raw path holds `..`.
C5_SecurityIffDecodedPathTooLong ==
    ( /\ Parsed
      /\ Whole
      /\ WellFormedLine(wire)
      /\ KnownMethod(wire)
      /\ Len(wire.headers) <= MaxHeaders )
    => ( FailedWith("Security")
           <=> \/ Len(decode(RequestPath(wire))) > MaxPathBytes
               \/ HasDotDot(RequestPath(wire)) )

\* C5, amended: such a parse fails with Security exactly when the raw,
\* undecoded path is longer than 4096 bytes or holds `..`; it succeeds
\* otherwise. Dots in the query do not count.
C5_SecurityIffRawPathTooLong ==
    ( /\ Parsed
      /\ Whole
      /\ WellFormedLine(wire)
      /\ KnownMethod(wire)
      /\ Len(wire.headers) <= MaxHeaders )
    => /\ FailedWith("Security")
            <=> \/ Len(RequestPath(wire)) > MaxPathBytes
                \/ HasDotDot(RequestPath(wire))
       /\ ~FailedWith("Security") => parsed.tag = "Ok"

\* A raw path of 4097 bytes that decodes to 4095 bytes, without `..`, was
\* rejected for its size.
C5_Witness ==
    /\ Parsed
    /\ Whole
    /\ wire.form = "request"
    /\ KnownMethod(wire)
    /\ Len(RequestPath(wire)) = MaxPathBytes + 1
    /\ Len(decode(RequestPath(wire))) < MaxPathBytes
    /\ ~HasDotDot(RequestPath(wire))
    /\ parsed = Err("Security", "exceeds size of 4kb")

\* C6: for every path P of at most 4096 bytes without `..`, the parse of a
\* whole request with a well-formed request line with path P (a method of
\* the catalog, at most 64 header lines) succeeds, and the path of the
\* parsed request is P, byte for byte: it is not decoded.
C6_PathParses ==
    ( /\ Parsed
      /\ Whole
      /\ WellFormedLine(wire)
      /\ KnownMethod(wire)
      /\ Len(wire.headers) <= MaxHeaders
      /\ Len(RequestPath(wire)) <= MaxPathBytes
      /\ ~HasDotDot(RequestPath(wire)) )
    => /\ parsed.tag = "Ok"
       /\ parsed.val.uri.path = RequestPath(wire)

\* A path of exactly 4096 bytes that starts with /%41 was parsed, and is
\* the path of the parsed request.
C6_Witness ==
    /\ Parsed
    /\ Whole
    /\ wire.form = "request"
    /\ Len(wire.target) = MaxPathBytes
    /\ SubSeq(wire.target, 1, 4) = <<47, 37, 52, 49>>
    /\ parsed.tag = "Ok"
    /\ parsed.val.uri.path = wire.target

\* The header line is dropped: its name is not in the catalog of headers,
\* or its value is not UTF-8.
Dropped(l) == l.name \notin {ACCEPT, CONTENT_LENGTH} \/ ~IsUtf8(l.value, 1)

Kept(l) == ~Dropped(l)

\* The request of the wire without its dropped header lines.
WithoutDropped(w) ==
    [w EXCEPT !.headers = SelectSeq(w.headers, Kept)]

\* The header of the catalog of this name.
HeaderOf(name) == IF name = ACCEPT THEN "Accept" ELSE "ContentLength"

\* The headers of the parsed request are those of the header lines of the
\* wire that are not dropped, in their order.
HeadersAreKeptLines ==
    LET kept == SelectSeq(wire.headers, Kept)
    IN  parsed.val.headers =
            [i \in 1..Len(kept) |-> <<HeaderOf(kept[i].name), kept[i].value>>]

\* C7, as claimed: a dropped header line never makes the parse of a whole
\* request fail: when the parse fails, the parse of the request without its
\* dropped header lines fails alike; when it succeeds, the headers of the
\* parsed request are those of the header lines that are not dropped.
C7_DroppedHeadersNeverFail ==
    (Parsed /\ Whole /\ wire.form = "request")
    => /\ parsed.tag = "Err" => from_bytes(Render(WithoutDropped(wire))) = parsed
       /\ parsed.tag = "Ok" => HeadersAreKeptLines

\* C7, amended: the same for requests of at most 64 header lines, dropped
\* ones included.
C7_DroppedHeadersNeverFailUpToCap ==
    (Parsed /\ Whole /\ wire.form = "request" /\ Len(wire.headers) <= MaxHeaders)
    => /\ parsed.tag = "Err" => from_bytes(Render(WithoutDropped(wire))) = parsed
       /\ parsed.tag = "Ok" => HeadersAreKeptLines

\* A request of 64 header lines, the first of them with a name outside the
\* catalog, was parsed: 63 headers are left.
C7_Witness ==
    /\ Parsed
    /\ Whole
    /\ wire.form = "request"
    /\ Len(wire.headers) = MaxHeaders
    /\ Dropped(wire.headers[1])
    /\ parsed.tag = "Ok"
    /\ Len(parsed.val.headers) = MaxHeaders - 1

\* C8, as claimed: the parse of a whole request with a well-formed request
\* line and at most 64 header lines fails with Component when its method
\* or the name of one of its header lines is not in the catalog.
C8_ComponentForUnknownMethodOrHeader ==
    ( /\ Parsed
      /\ Whole
      /\ WellFormedLine(wire)
      /\ Len(wire.headers) <= MaxHeaders
      /\ \/ ~KnownMethod(wire)
         \/ \E i \in 1..Len(wire.headers) :
                wire.headers[i].name \notin {ACCEPT, CONTENT_LENGTH} )
    => FailedWith("Component")

\* The length of the head of the request of the wire: the request line,
\* the header lines and the blank line.
HeadLen(w) == Len(RequestLine(w)) + Len(RenderHeaders(w.headers)) + 2

\* C16: for every buffer that parses, the body of the request is exactly
\* the bytes of the buffer after the blank line that ends the head, none
\* when nothing follows it, whatever a Content-Length header says, and the
\* head and the body together are the whole buffer.
C16_BodyIsRemainder ==
    (Parsed /\ parsed.tag = "Ok") =>
        LET body == parsed.val.body
            n    == Len(buf) - Len(body)
        IN  /\ n >= 2
            /\ buf[n] = 10
            /\ buf[n - 1] = 10 \/ (buf[n - 1] = 13 /\ buf[n - 2] = 10)
            /\ body = SubSeq(buf, n + 1, Len(buf))
            /\ SubSeq(buf, 1, n) \o body = buf
            /\ wire.form = "request" =>
                  /\ n = HeadLen(wire)
                  /\ Whole => body = wire.body

\* A request that declares a Content-Length of 2 and ends with its blank
\* line was parsed: its body is empty.
C16_Witness ==
    /\ Parsed
    /\ parsed.tag = "Ok"
    /\ wire.form = "request"
    /\ wire.headers = << Line(CONTENT_LENGTH, <<50>>) >>
    /\ wire.body = <<>>
    /\ Len(buf) = HeadLen(wire)
    /\ parsed.val.headers = << <<"ContentLength", <<50>>>> >>
    /\ parsed.val.body = <<>>

---------------------------------------------------------------------------
(* Properties of the percent-encoding.                                     *)

\* C9: round trip. For every string free of null bytes, decoding its path
\* encoding gives the string back.
C9_RoundTrip ==
    (decoded # None /\ kind = "Path" /\ 0 \notin Bytes(value))
        => decoded.val = value

\* A string with a percent sign, a space and a non-ASCII character was
\* encoded to something else and decoded back.
C9_Witness ==
    /\ decoded # None
    /\ kind = "Path"
    /\ {37, 32, 195} \subseteq Bytes(value)
    /\ 0 \notin Bytes(value)
    /\ encoded.val # value
    /\ decoded.val = value

\* The string is one character.
OneChar(v) == Len(v) = 1 \/ v = <<195, 169>>

\* C10, as claimed: for every character other than `?`, the query encoding
\* escapes it if and only if the path encoding does.
C10_QueryIsPathMinusQuestionMark ==
    (encoded # None /\ kind = "Query" /\ OneChar(value) /\ value # <<63>>)
        => ((encoded.val # value) <=> (encode(value, "Path") # value))

\* C10, amended: for every character other than `?` and `~`, the query
\* encoding escapes it if and only if the path encoding does; `?` and `~`
\* are escaped by the path encoding and not by the query encoding.
C10_QueryIsPathMinusQuestionMarkAndTilde ==
    (encoded # None /\ kind = "Query" /\ OneChar(value))
        => IF value \in {<<63>>, <<126>>}
           THEN encoded.val = value /\ encode(value, "Path") # value
           ELSE (encoded.val # value) <=> (encode(value, "Path") # value)

\* A space was escaped by the query encoding, as the path encoding does.
C10_Witness ==
    /\ encoded # None
    /\ kind = "Query"
    /\ value = <<32>>
    /\ encoded.val = <<37, 50, 48>>
    /\ encode(value, "Path") = encoded.val

---------------------------------------------------------------------------
(* Properties of handlers, middlewares and their adaptation.               *)

\* The generic response of an unrecoverable error.
Generic500 ==
    [status  |-> "InternalServerError",
     headers |-> << <<"ContentType", "text/plain; charset=utf-8">>,
                    <<"ContentLength", 21>> >>,
     body    |-> "Internal Server Error"]

\* No registered middleware calls next twice.
NoTwice == \A i \in 1..Len(registered) : registered[i].mw # "Twice"

\* The value is a response, and no Result.
IsResponse(v) == DOMAIN v = {"status", "headers", "body"}

\* Who answered the call that returned: the last one invoked, all those
\* before it having forwarded.
Answerer == log[Len(log)].who

\* C11: uniform adaptation. What a handler or a middleware returns to its
\* caller is always a response, never an error; when the one that answers
\* a call is a closure that returns Ok(r), the call returns exactly r, and
\* when it is a closure that returns Err(e), for either error e, the call
\* returns the generic "500 Internal Server Error" response.
C11_UniformAdaptation ==
    Resolved =>
        /\ ret # None => IsResponse(ret)
        /\ response # None => IsResponse(response)
        /\ (Returned /\ NoTwice) =>
              /\ Answerer \in {"Fails", "Broken"} => response = Generic500
              /\ Answerer = "AnswerOk" => response = ResponseWithStatus("Ok")
              /\ Answerer = "HelloOk" => response = HelloResponse

\* A forwarding middleware in front of a fallback closure that returns an
\* error has returned the generic 500 response.
C11_Witness ==
    /\ Resolved
    /\ Returned
    /\ Len(registered) = 1
    /\ registered[1].mw = "Forward"
    /\ fallback = "Broken"
    /\ Len(log) = 2
    /\ response = Generic500

\* The last one invoked is the fallback handler NotFound, and has returned.
NotFoundReturned ==
    /\ Resolved
    /\ log # <<>>
    /\ log[Len(log)] = [idx |-> Len(registered) + 1, who |-> "NotFound"]
    /\ ret # None

\* The values of this header of a response.
ResponseHeader(res, name) ==
    {res.headers[i][2] : i \in {j \in 1..Len(res.headers) :
                                    res.headers[j][1] = name}}

\* C12: whatever the request, its method, path, headers and body, what
\* NotFound.handle returns is a response of status 404 Not Found, whose
\* body is the canonical name of the status, `Not Found`, declared as plain
\* text, and whose Content-Length is the length of that body, 9 bytes.
C12_NotFound ==
    NotFoundReturned =>
        /\ ret.status = "NotFound"
        /\ ret.body = StatusName("NotFound")
        /\ ret.body = "Not Found"
        /\ ResponseHeader(ret, "ContentType") = {"text/plain; charset=utf-8"}
        /\ ResponseHeader(ret, "ContentLength") = {Len(ret.body)}
        /\ Len(ret.body) = 9

\* NotFound has answered a POST request with a header and a body, behind
\* a forwarding middleware, and the call has returned its response.
C12_Witness ==
    /\ NotFoundReturned
    /\ Returned
    /\ req.method = "Post"
    /\ req.headers # <<>>
    /\ req.body = "milk"
    /\ Len(registered) = 1
    /\ response = ret
    /\ response.status = "NotFound"
    /\ response.body = "Not Found"

---------------------------------------------------------------------------
(* Properties of resolution.                                               *)

\* The paths a prefix matcher is asked about, by their segments: up to
\* three segments out of api, files and x.
Paths == UNION { [1..n -> {"api", "files", "x"}] : n \in 0..3 }

\* The path lies under the base route: the base is a prefix of it, and
\* something follows.
Under(base, path) ==
    /\ Len(path) > Len(base)
    /\ \A i \in 1..Len(base) : path[i] = base[i].text

\* C13: a resolution that produces a Stack gives it a matcher if and only
\* if the Scope carries a base route; the matcher then holds exactly one
\* route, <base>/{*rest}, and matches exactly the paths under the base,
\* whatever follows the base; try_into_handler yields a Stack without a
\* matcher.
C13_MatcherIffBaseRoute ==
    [][ (resolution = None /\ resolution'.tag = "Ok") =>
            /\ resolution'.val.matcher # None <=> scope'.route # None
            /\ scope'.route # None =>
                  /\ resolution'.val.matcher.routes =
                        << scope'.route.val \o << Wildcard("rest") >> >>
                  /\ \A path \in Paths :
                        MatcherMatches(resolution'.val.matcher, path)
                            <=> Under(scope'.route.val, path)
            /\ try_into_handler => resolution'.val.matcher = None ]_vars

\* A builder of two middlewares was resolved under /api: the Stack holds
\* the matcher of /api/{*rest}.
C13_Witness ==
    /\ Resolved
    /\ Len(registered) = 2
    /\ scope.route = Some(<< Static("api") >>)
    /\ resolution.val.matcher =
          [routes |-> << << Static("api"), Wildcard("rest") >> >>]

\* C14: accumulation is deferred and keeps the order. While the builder
\* accumulates, nothing has failed and no conversion was invoked: the
\* builder holds one factory for each call of `with`, in the order of the
\* calls. After a successful resolution of n registered middlewares the
\* Stack holds exactly n middlewares, the i-th of them the conversion of
\* the i-th registered one under the Scope of the resolution, and each
\* factory was invoked exactly once, in that order.
C14_DeferredInOrder ==
    /\ resolution = None =>
          /\ builder = registered
          /\ converted = <<>>
    /\ Resolved =>
          /\ Len(Middlewares) = Len(registered)
          /\ \A i \in 1..Len(registered) :
                /\ TryInto(registered[i], scope).tag = "Ok"
                /\ Middlewares[i] = TryInto(registered[i], scope).val
          /\ converted = [i \in 1..Len(registered) |-> i]

\* Three middlewares, the second of which converts only under a mount,
\* were resolved under /api into a Stack of three.
C14_Witness ==
    /\ Resolved
    /\ Len(registered) = 3
    /\ registered[1].mw = "Teapot"
    /\ registered[2].conv = "Mounted"
    /\ registered[3].mw = "Answer"
    /\ scope.route # None
    /\ Middlewares = <<"Teapot", "Forward", "Answer">>
    /\ converted = <<1, 2, 3>>

---------------------------------------------------------------------------
(* Properties of a shared Stack.                                           *)

\* The response of Stack.process run alone: that of the first middleware
\* that answers, or that of the fallback.
RECURSIVE Alone(_, _, _, _)
Alone(ms, i, r, fb) ==
    IF i > Len(ms) THEN handle(fb, r)
    ELSE IF process(ms[i], r).act = "Answer" THEN process(ms[i], r).res
    ELSE Alone(ms, i + 1, r, fb)

---------------------------------------------------------------------------
(* Properties of one Stack.process call.                                   *)

\* Every middleware of the Stack invokes its next at most once in a call
\* for the request of the call made.
NextAtMostOnce ==
    \A i \in 1..Len(Middlewares) :
        LET p == process(Middlewares[i], req)
        IN  p.act = "Next" => p.times <= 1

\* The invocations of position idx, a middleware or the fallback, in the
\* call in progress or the last call made.
Invocations(idx) == {j \in 1..Len(log) : log[j].idx = idx}

\* A bound on the steps the call in progress has left: two for each
\* position not invoked yet, its invocation and its return, and one for
\* each invocation that has yet to return.
StepsLeft == 2 * (Len(Middlewares) + 1 - Len(log)) + Len(frames)

\* The call in progress can take a step: its innermost frame is about to
\* run a middleware or the fallback, or awaits a response that is there.
CanStep ==
    \/ Top.st = "Run" /\ Top.idx \in 1..(Len(Middlewares) + 1)
    \/ Top.st = "Await" /\ ret # None /\ IsResponse(ret)

\* C17: when every middleware of a Stack invokes its next at most once per
\* call, then in every Stack.process call each middleware and the fallback
\* handler is invoked at most once, down the Stack in order, and the call
\* terminates with exactly one response: while it is in progress it has
\* returned nothing and can always take a step, each step uses up the
\* bounded number of steps left, the step that ends it returns a response,
\* the one of the first middleware that answers or of the fallback, and
\* nothing changes that response until the next call.
C17_AtMostOnceAndTerminates ==
    /\ []((Resolved /\ req # None /\ NextAtMostOnce) =>
            /\ \A idx \in 1..(Len(Middlewares) + 1) :
                  Cardinality(Invocations(idx)) <= 1
            /\ \A j \in 1..Len(log) : log[j].idx = j
            /\ Len(log) <= Len(Middlewares) + 1
            /\ StepsLeft >= 0
            /\ ~Idle => response = None /\ CanStep
            /\ (Idle /\ log # <<>>) =>
                  /\ response # None
                  /\ IsResponse(response)
                  /\ response = Alone(Middlewares, 1, req, fallback))
    /\ [][(Resolved /\ req # None /\ NextAtMostOnce) =>
            /\ ~Idle =>
                  /\ StepsLeft' < StepsLeft
                  /\ frames' = <<>> <=> response' # None
            /\ (response # None /\ response' # response) =>
                  /\ Idle /\ ~Idle'
                  /\ response' = None]_vars

\* A call went down a Stack of three forwarding middlewares to the
\* fallback and has returned its response: four invocations, one each.
C17_Witness ==
    /\ Resolved
    /\ req # None
    /\ NextAtMostOnce
    /\ Middlewares = <<"Forward", "Forward", "Forward">>
    /\ fallback = "Hello"
    /\ Idle
    /\ [j \in 1..Len(log) |-> log[j].idx] = <<1, 2, 3, 4>>
    /\ response = HelloResponse

---------------------------------------------------------------------------
(* Properties of the order of resolution.                                  *)

\* The base route of the scope of the resolution cannot be extended by
\* /{*rest}: it holds a wildcard already, which would not be final.
BaseRejected ==
    /\ scope.route # None
    /\ \E i \in 1..Len(scope.route.val) : scope.route.val[i].seg = "Wildcard"

\* C18: the prefix matcher is compiled before any factory is invoked. A
\* resolution under a Scope whose base route makes the compilation of
\* the matcher fail returns an error of kind Matcher, whatever the
\* registered middlewares, failing ones included, and no factory was
\* invoked at all; an error of kind Middleware is returned only once the
\* matcher was compiled and a factory was invoked.
C18_MatcherBeforeFactories ==
    resolution # None =>
        /\ BaseRejected =>
              /\ resolution.tag = "Err"
              /\ resolution.kind = "Matcher"
              /\ converted = <<>>
        /\ (resolution.tag = "Err" /\ resolution.kind = "Matcher") =>
              /\ BaseRejected
              /\ converted = <<>>
        /\ (resolution.tag = "Err" /\ resolution.kind = "Middleware") =>
              /\ ~BaseRejected
              /\ converted # <<>>
              /\ resolution = TryInto(registered[Len(converted)], scope)

\* Two middlewares, the first of which fails to convert, were resolved
\* under the base route /files/{*path}: the error is the matcher's, and
\* no factory was invoked.
C18_Witness ==
    /\ resolution # None
    /\ scope.route = Some(<< Static("files"), Wildcard("path") >>)
    /\ Len(registered) = 2
    /\ registered[1].conv = "Fail"
    /\ resolution.tag = "Err"
    /\ resolution.kind = "Matcher"
    /\ converted = <<>>

---------------------------------------------------------------------------
(* Properties of the errors of the parser.                                 *)

\* The request of the wire is not one httparse accepts: its request line
\* is malformed, or it has more header lines than there are slots.
BadSyntax(w) == ~WellFormedLine(w) \/ Len(w.headers) > MaxHeaders

\* The error is one of syntax: too little data, or invalid data.
SyntaxError == FailedWith("Incomplete") \/ FailedWith("Parser")

\* C19: from_bytes reports its errors in a fixed precedence. A buffer that
\* ends within the head of a request, or a whole request of bad syntax,
\* fails with Incomplete or Parser, whatever its method and path; a whole
\* request of good syntax with a method outside the catalog fails with
\* Component, whatever its path; with a method of the catalog and a path
\* longer than 4096 bytes it fails with Security "exceeds size of 4kb",
\* with or without `..` in the path; with a shorter path that holds `..`
\* it fails with Security "path traversal"; it parses otherwise. An error
\* comes without a request.
C19_ErrorPrecedence ==
    /\ (Parsed /\ parsed.tag = "Err") => DOMAIN parsed = {"tag", "kind", "reason"}
    /\ (Parsed /\ wire.form = "request" /\ Len(buf) < HeadLen(wire))
          => SyntaxError
    /\ (Parsed /\ Whole /\ wire.form = "request") =>
          IF BadSyntax(wire) THEN SyntaxError
          ELSE IF ~KnownMethod(wire) THEN FailedWith("Component")
          ELSE IF Len(RequestPath(wire)) > MaxPathBytes
               THEN parsed = Err("Security", "exceeds size of 4kb")
          ELSE IF HasDotDot(RequestPath(wire))
               THEN parsed = Err("Security", "path traversal")
          ELSE parsed.tag = "Ok"

\* A whole request with the method BREW and a path of 4097 bytes that
\* starts with /.. has failed with Component.
C19_Witness ==
    /\ Parsed
    /\ Whole
    /\ wire.form = "request"
    /\ wire.method = BREW
    /\ Len(RequestPath(wire)) = MaxPathBytes + 1
    /\ HasDotDot(RequestPath(wire))
    /\ FailedWith("Component")


\* The error of a request with more header lines than the array holds.
TooManyHeaders == Err("Parser", "TooManyHeaders")

\* C20: from_bytes holds at most 64 header lines. A whole request with a
\* well-formed request line and more than 64 header lines is rejected
\* with the parser's error for too many headers, whether its header lines
\* are kept or dropped; no buffer of a request with 64 header lines or
\* fewer fails with that error, and a whole request with 64 or fewer, a
\* method of the catalog and a path of at most 4096 bytes without `..`
\* parses, into the headers of its header lines that are kept.
C20_AtMostMaxHeaders ==
    (Parsed /\ wire.form = "request") =>
        /\ (Whole /\ WellFormedLine(wire) /\ Len(wire.headers) > MaxHeaders)
              => parsed = TooManyHeaders
        /\ Len(wire.headers) <= MaxHeaders => parsed # TooManyHeaders
        /\ ( /\ Whole
             /\ WellFormedLine(wire)
             /\ Len(wire.headers) <= MaxHeaders
             /\ KnownMethod(wire)
             /\ Len(RequestPath(wire)) <= MaxPathBytes
             /\ ~HasDotDot(RequestPath(wire)) )
              => /\ parsed.tag = "Ok"
                 /\ HeadersAreKeptLines

\* A whole request of 65 header lines, every one of them with a name
\* outside the catalog, was rejected.
C20_Witness ==
    /\ Parsed
    /\ Whole
    /\ wire.form = "request"
    /\ Len(wire.headers) = MaxHeaders + 1
    /\ \A i \in 1..Len(wire.headers) : Dropped(wire.headers[i])
    /\ parsed = TooManyHeaders

\* A whole request of 64 header lines, every one of them kept, was parsed
\* into 64 headers.
C20_WitnessAtCap ==
    /\ Parsed
    /\ Whole
    /\ wire.form = "request"
    /\ Len(wire.headers) = MaxHeaders
    /\ \A i \in 1..Len(wire.headers) : Kept(wire.headers[i])
    /\ parsed.tag = "Ok"
    /\ Len(parsed.val.headers) = MaxHeaders

===========================================================================
